---- MODULE Spec2Model ----
(***************************************************************************)
(* A model of zippylib: the primer store (database.py, PrimerDB), the      *)
(* primer pair list and its scores (primer.py, PrimerPair) and the reading *)
(* of the aligner's records (primer.py, MultiFasta.createPrimers).         *)
(*                                                                         *)
(* Python values: None is the record NoneValue; a SQL NULL is the empty    *)
(* tuple and a SQL value v is <<v>>; a sequence of bases is a tuple of     *)
(* one-letter strings.  An operation that raises records the exception in  *)
(* `last.outcome`; a transaction that is not committed leaves the tables   *)
(* as they were (the connection is closed without commit).                 *)
(***************************************************************************)
EXTENDS Integers, Sequences, FiniteSets, TLC

VARIABLES
    primer,     \* table primer: set of rows, name is the primary key
    target,     \* table target: rows in rowid order (no uniqueness)
    pairs,      \* table pairs: set of rows, UNIQUE(pairid, uniqueid)
    status,     \* table status: set of rows, UNIQUE(pairid, uniqueid)
    now,        \* what datetime.datetime.now() returns, as a counter
    connOpen,   \* self.db is an open connection
    rows,       \* what the last query's cursor.fetchall() returned
    last,       \* the last operation: its name, argument, outcome, value
    pair,       \* a PrimerPair: the list's elements
    pairLast,   \* the last operation on `pair` and its outcome
    primersByName, \* createPrimers: its dict `primers`, as resolved so far
    pc,         \* the store operation in progress and its position
    uncommitted \* the tables as the open connection's transaction sees them

storeVars == <<primer, target, pairs, status, now, connOpen, rows, last>>
pairVars == <<pair, pairLast>>
resolverVars == <<primersByName>>
connVars == <<pc, uncommitted>>
vars == <<primer, target, pairs, status, now, connOpen, rows, last, pair,
          pairLast, primersByName, pc, uncommitted>>

----------------------------------------------------------------------------
(* Bounds of the model *)

MaxBatch == 2          \* primers or pairs handed to one addPrimer/addPair call
MaxTime == 2           \* the clock stops the writes at this time
MaxTargetRows == 2     \* rows the target table may grow to
MaxOffset == 2         \* left primers sit at offsets 1..MaxOffset
MaxRows == 2           \* pairs rows of a store a query is checked on
MaxQueryPos == 6       \* query intervals lie in 3..MaxQueryPos
MaxElems == 3          \* elements handed to one extend/+/+=/slice assignment

----------------------------------------------------------------------------
(* Python and SQL values *)

NoneValue == [kind |-> "None"]
PyStr(s) == [kind |-> "str", val |-> s]
NULL == <<>>

\* no store operation is in progress
Idle == [op |-> "", at |-> "idle"]
SqlValue(v) == <<v>>

\* str(x) for the tags that occur: str(None) is 'None'
Str(x) == IF x = NoneValue THEN <<"N", "o", "n", "e">> ELSE x

RECURSIVE Join(_, _)
\* sep.join(parts)
Join(sep, parts) ==
    IF parts = <<>> THEN <<>>
    ELSE IF Len(parts) = 1 THEN Head(parts)
    ELSE Head(parts) \o sep \o Join(sep, Tail(parts))

RECURSIVE Count(_, _)
\* seq.count(c)
Count(s, c) ==
    IF s = <<>> THEN 0
    ELSE (IF Head(s) = c THEN 1 ELSE 0) + Count(Tail(s), c)

\* hashlib.sha1(text).hexdigest(): a digest that tells texts apart
sha1(text) == [sha1 |-> text]

\* SQLite's integer division truncates toward zero
TruncDiv(a, b) == IF a >= 0 THEN a \div b ELSE -((-a) \div b)

Abs(n) == IF n < 0 THEN -n ELSE n

----------------------------------------------------------------------------
(* primer.py: Locus, Primer, PrimerPair as values *)

Locus(chrom, offset, length, reverse) ==
    [kind |-> "Locus", chrom |-> chrom, offset |-> offset,
     length |-> length, reverse |-> reverse]

\* primer3.calcTm(seq): the melting temperature, a function of the sequence
calcTm(seq) == [tmOf |-> seq]

\* (count('G') + count('C')) / float(len(seq)), as numerator and denominator
gcContent(seq) == [num |-> Count(seq, "G") + Count(seq, "C"), den |-> Len(seq)]

Primer(name, seq, targetposition) ==
    [kind |-> "Primer", rank |-> -1, name |-> name, seq |-> seq,
     tag |-> NoneValue, tm |-> calcTm(seq), gc |-> gcContent(seq),
     loci |-> <<>>, snp |-> <<>>, sigmatch |-> 0,
     targetposition |-> targetposition]

\* Primer.addTarget: one more observed locus
addTarget(p, chrom, pos, reverse) ==
    [p EXCEPT !.loci = Append(@, Locus(chrom, pos, Len(p.seq), reverse))]

\* PrimerPair.__init__: the elements, and the name as it was handed in
PrimerPair(elements, name) ==
    [elements |-> elements, length |-> 2, reversed |-> FALSE, name |-> name]

\* PrimerPair.uniqueid
uniqueid(p) ==
    sha1(Join(<<",">>,
              <<Str(p.elements[1].tag) \o <<"-">> \o p.elements[1].seq,
                Str(p.elements[2].tag) \o <<"-">> \o p.elements[2].seq>>))

----------------------------------------------------------------------------
(* primer.py: PrimerPair as a list; `self` is the list's elements *)

\* the default of PrimerPair.__init__'s length parameter
PairLength == 2

Min(a, b) == IF a < b THEN a ELSE b
Max(a, b) == IF a > b THEN a ELSE b

\* _check_item_bound raises
checkItemBound(self) == PairLength # 0 /\ Len(self) >= PairLength

\* _check_list_bound raises
checkListBound(self, L) == PairLength # 0 /\ Len(self) + Len(L) > PairLength

\* list.insert(i, x) for i >= 0
listInsert(self, i, x) ==
    SubSeq(self, 1, Min(i, Len(self))) \o <<x>>
        \o SubSeq(self, Min(i, Len(self)) + 1, Len(self))

\* list.__setslice__(i, j, L) for i, j >= 0
listSetslice(self, i, j, L) ==
    LET lo == Min(i, Len(self))
        hi == Max(lo, Min(j, Len(self)))
    IN  SubSeq(self, 1, lo) \o L \o SubSeq(self, hi + 1, Len(self))

pairAppend(self, x) ==
    IF checkItemBound(self)
    THEN [raised |-> "BoundExceedError", self |-> self, value |-> NoneValue]
    ELSE [raised |-> "", self |-> Append(self, x), value |-> NoneValue]

pairExtend(self, L) ==
    IF checkListBound(self, L)
    THEN [raised |-> "BoundExceedError", self |-> self, value |-> NoneValue]
    ELSE [raised |-> "", self |-> self \o L, value |-> NoneValue]

pairInsert(self, i, x) ==
    IF checkItemBound(self)
    THEN [raised |-> "BoundExceedError", self |-> self, value |-> NoneValue]
    ELSE [raised |-> "", self |-> listInsert(self, i, x), value |-> NoneValue]

\* __add__ returns a new list and leaves the pair as it is
pairAdd(self, L) ==
    IF checkListBound(self, L)
    THEN [raised |-> "BoundExceedError", self |-> self, value |-> NoneValue]
    ELSE [raised |-> "", self |-> self, value |-> self \o L]

pairIadd(self, L) ==
    IF checkListBound(self, L)
    THEN [raised |-> "BoundExceedError", self |-> self, value |-> NoneValue]
    ELSE [raised |-> "", self |-> self \o L, value |-> NoneValue]

\* the test of __setslice__(left, right, L)
setsliceExceeds(self, left, right, L) ==
    /\ PairLength # 0
    /\ IF right > PairLength
       THEN left + Len(L) > PairLength
       ELSE Len(self) - (right - left) + Len(L) > PairLength

pairSetslice(self, left, right, L) ==
    IF setsliceExceeds(self, left, right, L)
    THEN [raised |-> "BoundExceedError", self |-> self, value |-> NoneValue]
    ELSE [raised |-> "", self |-> listSetslice(self, left, right, L),
          value |-> NoneValue]

----------------------------------------------------------------------------
(* database.py: the SQL statements *)

PrimerRow(p) == [name |-> p.name, seq |-> p.seq, tm |-> p.tm, gc |-> p.gc]

\* INSERT OR REPLACE INTO primer: name is the primary key
InsertPrimer(tbl, p) ==
    {r \in tbl : r.name # p.name} \cup {PrimerRow(p)}

\* INSERT OR REPLACE INTO target: the table has no key, every insert adds a row
InsertTarget(tbl, p, l) ==
    Append(tbl, [seq |-> p.seq, chrom |-> l.chrom, position |-> l.offset,
                 reverse |-> l.reverse])

RECURSIVE InsertTargets(_, _, _)
\* for l in p.loci: INSERT OR REPLACE INTO target
InsertTargets(tbl, p, loci) ==
    IF loci = <<>> THEN tbl
    ELSE InsertTargets(InsertTarget(tbl, p, Head(loci)), p, Tail(loci))

SameKey(r, pairid, uid) == r.pairid = pairid /\ r.uniqueid = uid

\* INSERT OR REPLACE INTO pairs: UNIQUE (pairid, uniqueid) ON CONFLICT REPLACE
InsertPair(tbl, pairid, uid, left, right, chrom, start, end) ==
    {r \in tbl : ~SameKey(r, pairid, uid)} \cup
    {[pairid |-> pairid, uniqueid |-> uid, left |-> left, right |-> right,
      chrom |-> chrom, start |-> start, end |-> end]}

\* INSERT OR REPLACE INTO status(pairID, uniqueid, dateadded): the status
\* column is not among the columns written, so it is NULL
InsertStatus(tbl, pairid, uid, dateadded) ==
    {r \in tbl : ~SameKey(r, pairid, uid)} \cup
    {[pairid |-> pairid, uniqueid |-> uid, status |-> NULL,
      dateadded |-> dateadded]}

----------------------------------------------------------------------------
(* database.py: addPrimer and addPair, as functions of the tables *)

RECURSIVE addPrimerLoop(_, _, _)
\* the loop of addPrimer: the tables as the open transaction sees them, or the
\* exception raised (an element that is None has no attribute name)
addPrimerLoop(primers, ptab, ttab) ==
    IF primers = <<>> THEN [raised |-> "", primer |-> ptab, target |-> ttab]
    ELSE IF Head(primers).kind # "Primer"
    THEN [raised |-> "AttributeError", primer |-> ptab, target |-> ttab]
    ELSE addPrimerLoop(Tail(primers), InsertPrimer(ptab, Head(primers)),
                       InsertTargets(ttab, Head(primers), Head(primers).loci))

\* addPrimer: commit after the loop; an exception closes without commit
addPrimer(primers, ptab, ttab) ==
    LET run == addPrimerLoop(primers, ptab, ttab)
    IN  IF run.raised = "" THEN run
        ELSE [raised |-> run.raised, primer |-> ptab, target |-> ttab]

RECURSIVE flatten(_)
\* flat.append(p[0]); flat.append(p[1])
flatten(ps) ==
    IF ps = <<>> THEN <<>>
    ELSE <<Head(ps).elements[1], Head(ps).elements[2]>> \o flatten(Tail(ps))

RECURSIVE addPairLoop(_, _, _, _)
\* the second loop of addPair: the pairs and status tables as the open
\* transaction sees them, or the exception raised
addPairLoop(ps, prtab, sttab, time) ==
    IF ps = <<>> THEN [raised |-> "", pairs |-> prtab, status |-> sttab]
    ELSE LET p == Head(ps)
             left == p.elements[1]
             right == p.elements[2]
         IN  IF left.targetposition = NoneValue \/ right.targetposition = NoneValue
             THEN [raised |-> "AttributeError", pairs |-> prtab, status |-> sttab]
             ELSE IF p.name.kind # "callable"
             THEN [raised |-> "TypeError", pairs |-> prtab, status |-> sttab]
             ELSE addPairLoop(
                     Tail(ps),
                     InsertPair(prtab, p.name.val, uniqueid(p), left.seq, right.seq,
                                left.targetposition.chrom,
                                left.targetposition.offset,
                                right.targetposition.offset
                                    + right.targetposition.length),
                     InsertStatus(sttab, p.name.val, uniqueid(p), time),
                     time)

\* addPair: addPrimer(*flat) in a transaction of its own, then the pairs and
\* status rows in a second transaction
addPair(ps, ptab, ttab, prtab, sttab, time) ==
    LET first == addPrimer(flatten(ps), ptab, ttab)
        second == addPairLoop(ps, prtab, sttab, time)
    IN  IF first.raised # ""
        THEN [raised |-> first.raised, primer |-> ptab, target |-> ttab,
              pairs |-> prtab, status |-> sttab]
        ELSE IF second.raised # ""
        THEN [raised |-> second.raised, primer |-> first.primer,
              target |-> first.target, pairs |-> prtab, status |-> sttab]
        ELSE [raised |-> "", primer |-> first.primer, target |-> first.target,
              pairs |-> second.pairs, status |-> second.status]

----------------------------------------------------------------------------
(* database.py: query and blacklist, as functions of the tables *)

\* FROM pairs AS p, status AS s WHERE p.pairid = s.pairid AND p.uniqueid = s.uniqueid
JoinStatus(prtab, sttab) ==
    {ps \in prtab \X sttab : SameKey(ps[2], ps[1].pairid, ps[1].uniqueid)}

QueryWhereStrict(p, variant) ==
    /\ p.chrom = variant.chrom
    /\ p.start + Len(p.left) < variant.chromStart
    /\ p.end - Len(p.right) >= variant.chromEnd

\* the rest of query's WHERE clause; the parameters bound to its three
\* placeholders are variant.chrom, variant.chromStart, variant.chromEnd
QueryWhere(p, variant) ==
    /\ p.chrom = variant.chrom
    /\ p.start + Len(p.left) <= variant.chromStart
    /\ p.end - Len(p.right) >= variant.chromEnd

midpointdistanceSigned(p, variant) ==
    2 * (p.start + TruncDiv(p.end - p.start, 2))
        - (2 * variant.chromStart + (variant.chromEnd - variant.chromStart))

\* abs(p.start+((p.end-p.start)/2) - ?) with the parameter
\* variant.chromStart+int(variant.chromEnd-variant.chromStart)/2.0,
\* times two: the SQL division is an integer division, the Python one is not
midpointdistance(p, variant) ==
    Abs(2 * (p.start + TruncDiv(p.end - p.start, 2))
        - (2 * variant.chromStart + (variant.chromEnd - variant.chromStart)))

\* SELECT DISTINCT p.pairid, p.left, p.right, p.chrom, p.start, p.end,
\* s.status, midpointdistance
QuerySelect(prtab, sttab, variant) ==
    {[pairid |-> ps[1].pairid, left |-> ps[1].left, right |-> ps[1].right,
      chrom |-> ps[1].chrom, start |-> ps[1].start, end |-> ps[1].end,
      status |-> ps[2].status,
      midpointdistance |-> midpointdistance(ps[1], variant)] :
        ps \in {j \in JoinStatus(prtab, sttab) : QueryWhere(j[1], variant)}}

\* the orders a result set may be fetched in
FetchOrders(S) ==
    {f \in [1..Cardinality(S) -> S] :
        \A i, j \in 1..Cardinality(S) : i # j => f[i] # f[j]}

\* ORDER BY midpointdistance: rows of equal distance come in any order
OrderByMidpointdistance(S) ==
    {f \in FetchOrders(S) :
        \A i \in 1..(Cardinality(S) - 1) :
            f[i].midpointdistance <= f[i + 1].midpointdistance}

\* the loop after the fetch: Primer has no method calcProperties, so the
\* first row raises; without rows the empty list is returned
queryPairs(fetched) ==
    IF fetched = <<>> THEN [raised |-> "", value |-> <<>>]
    ELSE [raised |-> "AttributeError", value |-> NoneValue]

\* blacklist(): SELECT DISTINCT ... WHERE ... AND s.status = 0
BlacklistSelect(prtab, sttab) ==
    {[pairid |-> ps[1].pairid, uniqueid |-> ps[1].uniqueid, left |-> ps[1].left,
      right |-> ps[1].right, chrom |-> ps[1].chrom, start |-> ps[1].start,
      end |-> ps[1].end, status |-> ps[2].status,
      dateadded |-> ps[2].dateadded] :
        ps \in {j \in JoinStatus(prtab, sttab) : j[2].status = SqlValue(0)}}

\* blacklist(add): with an argument the statement runs on `cursor`, a local
\* that branch never assigns; the status table is as it was
blacklistUpdate(add, sttab) ==
    [raised |-> "UnboundLocalError", status |-> sttab]

----------------------------------------------------------------------------
(* The inputs the operations are called with *)

Chroms == {"chr1", "chr2"}
PairIds == {"x", "y"}
SeqAC == <<"A", "C">>
SeqT == <<"T">>
SeqG == <<"G">>

\* a primer the specificity resolver found on its target
Resolved(p) ==
    addTarget(p, p.targetposition.chrom, p.targetposition.offset,
              p.targetposition.reverse)

\* left primers, all under one name: with a target position or without,
\* resolved against the genome or not, with one sequence or another
LocatedLefts ==
    {Resolved(Primer("x_left", SeqAC, Locus("chr1", 1, Len(SeqAC), FALSE)))}
    \cup {Primer("x_left", SeqAC, Locus("chr1", o, Len(SeqAC), FALSE)) :
            o \in 2..MaxOffset}
    \cup {Primer("x_left", SeqT, Locus("chr1", 1, Len(SeqT), FALSE))}

UnlocatedLeft == Primer("x_left", SeqAC, NoneValue)

LeftPrimers == LocatedLefts \cup {UnlocatedLeft}

RightPrimer == Primer("x_right", SeqG, Locus("chr1", 5, Len(SeqG), TRUE))

\* the name a PrimerPair is constructed with: None (the default), a string,
\* or something that can be called and returns a string
CallableName(s) == [kind |-> "callable", val |-> s]

\* Primer3.design starts every pair as PrimerPair([None, None]) and fills it
PairObjects ==
    {PrimerPair(<<l, RightPrimer>>, CallableName("x")) : l \in LeftPrimers}
    \cup {PrimerPair(<<l, RightPrimer>>, n) :
            l \in {q \in LocatedLefts : q.loci # <<>>},
            n \in {NoneValue, PyStr("x")}}
    \cup {PrimerPair(<<l, NoneValue>>, NoneValue) :
            l \in {q \in LocatedLefts : q.loci # <<>>}}

Batches(S) == UNION {[1..n -> S] : n \in 0..MaxBatch}

RECURSIVE LociCount(_)
LociCount(primers) ==
    IF primers = <<>> THEN 0
    ELSE (IF Head(primers).kind = "Primer" THEN Len(Head(primers).loci) ELSE 0)
         + LociCount(Tail(primers))

Variants ==
    {v \in [chrom : Chroms, chromStart : 3..MaxQueryPos, chromEnd : 3..MaxQueryPos] :
        v.chromStart <= v.chromEnd}

----------------------------------------------------------------------------
(* The store: PrimerDB(database) on a new database file, and its operations *)

Init ==
    /\ primer = {}
    /\ target = <<>>
    /\ pairs = {}
    /\ status = {}
    /\ now = 0
    /\ connOpen = FALSE
    /\ rows = <<>>
    /\ last = [op |-> "__init__", arg |-> NoneValue, outcome |-> "",
               value |-> NoneValue]
    /\ pair = <<>>
    /\ pairLast = [op |-> "", outcome |-> "", value |-> NoneValue]
    /\ primersByName = <<>>
    /\ pc = Idle
    /\ uncommitted = NoneValue

AddPrimer(primers) ==
    /\ Len(target) + LociCount(primers) <= MaxTargetRows
    /\ LET r == addPrimer(primers, primer, target)
       IN  /\ primer' = r.primer
           /\ target' = r.target
           /\ last' = [op |-> "addPrimer", arg |-> NoneValue,
                       outcome |-> r.raised, value |-> NoneValue]
    /\ connOpen' = FALSE
    /\ UNCHANGED <<pairs, status, now, rows, pairVars, resolverVars, connVars>>

AddPair(ps) ==
    /\ now < MaxTime
    /\ Len(target) + LociCount(flatten(ps)) <= MaxTargetRows
    /\ LET r == addPair(ps, primer, target, pairs, status, now)
       IN  /\ primer' = r.primer
           /\ target' = r.target
           /\ pairs' = r.pairs
           /\ status' = r.status
           /\ last' = [op |-> "addPair", arg |-> NoneValue, outcome |-> r.raised,
                       value |-> NoneValue]
           \* a later call that stamps rows reads a later time
           /\ now' = IF r.raised = "" /\ ps # <<>> THEN now + 1 ELSE now
    /\ connOpen' = FALSE
    /\ UNCHANGED <<rows, pairVars, resolverVars, connVars>>

Blacklist(add) ==
    /\ LET r == blacklistUpdate(add, status)
       IN  /\ status' = r.status
           /\ last' = [op |-> "blacklist", arg |-> PyStr(add), outcome |-> r.raised,
                       value |-> NoneValue]
    /\ connOpen' = FALSE
    /\ UNCHANGED <<primer, target, pairs, now, rows, pairVars, resolverVars,
                   connVars>>

BlacklistShow ==
    /\ \E listed \in FetchOrders(BlacklistSelect(pairs, status)) :
           last' = [op |-> "blacklist", arg |-> NoneValue, outcome |-> "",
                    value |-> listed]
    /\ connOpen' = FALSE
    /\ UNCHANGED <<primer, target, pairs, status, now, rows, pairVars,
                   resolverVars, connVars>>

Query(variant) ==
    /\ \E fetched \in OrderByMidpointdistance(QuerySelect(pairs, status, variant)) :
           /\ rows' = fetched
           /\ last' = [op |-> "query", arg |-> variant,
                       outcome |-> queryPairs(fetched).raised,
                       value |-> queryPairs(fetched).value]
    /\ connOpen' = FALSE
    /\ UNCHANGED <<primer, target, pairs, status, now, pairVars, resolverVars,
                   connVars>>

Next ==
    \/ \E primers \in Batches(LeftPrimers \cup {RightPrimer, NoneValue}) :
           AddPrimer(primers)
    \/ \E ps \in Batches(PairObjects) : AddPair(ps)
    \/ \E add \in PairIds : Blacklist(add)
    \/ BlacklistShow
    \/ \E variant \in Variants : Query(variant)

Spec == Init /\ [][Next]_vars

----------------------------------------------------------------------------
(* Claims about the store's writes, checked under Spec *)

HasTargets(p) ==
    /\ p.elements[1].kind = "Primer"
    /\ p.elements[2].kind = "Primer"
    /\ p.elements[1].targetposition # NoneValue
    /\ p.elements[2].targetposition # NoneValue

IsNamed(p) == p.name # NoneValue

\* the coordinates addPair stores for p
StoredChrom(p) == p.elements[1].targetposition.chrom
StoredStart(p) == p.elements[1].targetposition.offset
StoredEnd(p) ==
    p.elements[2].targetposition.offset + p.elements[2].targetposition.length

\* the interval of the variant lies within the stored span of p
Covers(p, variant) ==
    /\ variant.chrom = StoredChrom(p)
    /\ StoredStart(p) <= variant.chromStart
    /\ variant.chromEnd <= StoredEnd(p)

\* what query(variant) may return on these tables
QueryOutcomes(prtab, sttab, variant) ==
    {queryPairs(fetched) :
        fetched \in OrderByMidpointdistance(QuerySelect(prtab, sttab, variant))}

\* C1: store round trip: for a pair whose two primers carry a target position,
\* addPair(pair) followed by query(interval), the interval covered by the pair's
\* stored span, returns a list with a pair of the same left and right sequences.
C1_StoreRoundTrip ==
    [][\A p \in PairObjects :
        HasTargets(p) /\ AddPair(<<p>>) =>
            \A variant \in Variants :
                Covers(p, variant) =>
                    \A r \in QueryOutcomes(pairs', status', variant) :
                        /\ r.raised = ""
                        /\ \E i \in 1..Len(r.value) :
                            /\ r.value[i].elements[1].seq = p.elements[1].seq
                            /\ r.value[i].elements[2].seq = p.elements[2].seq]_vars

\* C5: replace, not duplicate: the pairs table holds at most one row per
\* (pairid, uniqueid); re-adding a pair under a stored pairid and uniqueid with
\* other coordinates raises no error, leaves the number of rows of that pairid
\* as it was, and the row carries the coordinates of the latest add.
C5_ReplaceNotDuplicate ==
    [][\A p \in PairObjects :
        (/\ HasTargets(p)
         /\ IsNamed(p)
         /\ AddPair(<<p>>)
         /\ \E r \in pairs :
              /\ SameKey(r, p.name.val, uniqueid(p))
              /\ <<r.chrom, r.start, r.end>>
                    # <<StoredChrom(p), StoredStart(p), StoredEnd(p)>>)
        => /\ last'.outcome = ""
           /\ Cardinality({r \in pairs' : r.pairid = p.name.val})
                = Cardinality({r \in pairs : r.pairid = p.name.val})
           /\ \A r, q \in pairs' :
                SameKey(r, q.pairid, q.uniqueid) => r = q
           /\ \A r \in pairs' :
                SameKey(r, p.name.val, uniqueid(p)) =>
                    <<r.chrom, r.start, r.end>>
                        = <<StoredChrom(p), StoredStart(p), StoredEnd(p)>>]_vars

\* C6: batch atomicity: an addPrimer or addPair call that fails leaves the
\* primer, target, pairs and status tables as they were before the call.
C6_BatchAtomicity ==
    [][last'.op \in {"addPrimer", "addPair"} /\ last'.outcome # ""
        => UNCHANGED <<primer, target, pairs, status>>]_vars

\* C7: referential invariant: the left and the right sequence of every pairs
\* row are the seq of some primer row.
C7_PairsReferencePrimers ==
    \A r \in pairs :
        /\ \E q \in primer : q.seq = r.left
        /\ \E q \in primer : q.seq = r.right

\* C8: blacklist(pairid) for a stored pair sets the status of that pair to 0
\* and changes no status of a pair of another pairid; blacklist() lists exactly
\* the stored pairs whose status is 0.
C8_BlacklistWritePath ==
    [][/\ (/\ last'.op = "blacklist"
           /\ last'.arg # NoneValue
           /\ \E r \in pairs : r.pairid = last'.arg.val)
          => /\ \A s \in status' :
                    s.pairid = last'.arg.val => s.status = SqlValue(0)
             /\ {s \in status' : s.pairid # last'.arg.val}
                    = {s \in status : s.pairid # last'.arg.val}
       /\ (last'.op = "blacklist" /\ last'.arg = NoneValue)
          => {<<l.pairid, l.uniqueid>> : l \in {last'.value[i] : i \in 1..Len(last'.value)}}
                = {<<r.pairid, r.uniqueid>> :
                    r \in {q \in pairs : SqlValue(0) \in
                        {s.status : s \in {t \in status :
                            SameKey(t, q.pairid, q.uniqueid)}}}}]_vars

\* C9: initial status: after a successful addPair(pair) the store holds exactly
\* one status row for the pair's (pairid, uniqueid), with a nonzero integer
\* status and the time of the add.
C9_InitialStatus ==
    [][\A p \in PairObjects :
        AddPair(<<p>>) /\ last'.outcome = "" =>
            /\ Cardinality({s \in status' : SameKey(s, p.name.val, uniqueid(p))}) = 1
            /\ \A s \in status' :
                SameKey(s, p.name.val, uniqueid(p)) =>
                    /\ s.status # NULL
                    /\ s.status # SqlValue(0)
                    /\ s.dateadded = now]_vars

----------------------------------------------------------------------------
(* query on a database file that already holds pairs: PrimerDB(database)   *)
(* keeps the rows of an existing file (CREATE TABLE IF NOT EXISTS).  The   *)
(* rows are those INSERT OR REPLACE leaves, each pair with its status row, *)
(* the status being NULL, 0 (blacklisted) or 1 (active).                   *)

MaxEnd == 7            \* stored pairs end at 6..MaxEnd

StatusValues == {NULL, SqlValue(0), SqlValue(1)}

StoredPairFields ==
    [pairid : PairIds, chrom : Chroms, start : 1..MaxOffset, end : 6..MaxEnd]

RECURSIVE InsertPairs(_, _)
InsertPairs(tbl, fs) ==
    IF fs = <<>> THEN tbl
    ELSE InsertPairs(
            InsertPair(tbl, Head(fs).pairid,
                       uniqueid(PrimerPair(<<UnlocatedLeft, RightPrimer>>, NoneValue)),
                       SeqAC, SeqG, Head(fs).chrom, Head(fs).start, Head(fs).end),
            Tail(fs))

StoredPairTables ==
    {InsertPairs({}, fs) : fs \in UNION {[1..n -> StoredPairFields] : n \in 0..MaxRows}}

QueryInit ==
    /\ \E tbl \in StoredPairTables :
        \E st \in [tbl -> StatusValues] :
            /\ pairs = tbl
            /\ status = {[pairid |-> p.pairid, uniqueid |-> p.uniqueid,
                          status |-> st[p], dateadded |-> 0] : p \in tbl}
            /\ primer = IF tbl = {} THEN {}
                        ELSE {PrimerRow(UnlocatedLeft), PrimerRow(RightPrimer)}
    /\ target = <<>>
    /\ now = 1
    /\ connOpen = FALSE
    /\ rows = <<>>
    /\ last = [op |-> "__init__", arg |-> NoneValue, outcome |-> "",
               value |-> NoneValue]
    /\ pair = <<>>
    /\ pairLast = [op |-> "", outcome |-> "", value |-> NoneValue]
    /\ primersByName = <<>>
    /\ pc = Idle
    /\ uncommitted = NoneValue

QueryNext == \E variant \in Variants : Query(variant)

QuerySpec == QueryInit /\ [][QueryNext]_vars

----------------------------------------------------------------------------
(* Claims about query, checked under QuerySpec *)

\* the last query fetched the row of the stored pair p
Selected(p) ==
    \E i \in 1..Len(rows) :
        /\ rows[i].pairid = p.pairid
        /\ rows[i].left = p.left
        /\ rows[i].right = p.right
        /\ rows[i].chrom = p.chrom
        /\ rows[i].start = p.start
        /\ rows[i].end = p.end

StatusOf(p) == {s.status : s \in {t \in status : SameKey(t, p.pairid, p.uniqueid)}}

C3_BoundaryAsStated ==
    last.op = "query" =>
        \A p \in pairs :
            p.chrom = last.arg.chrom =>
                (Selected(p) <=>
                    /\ p.start + Len(p.left) <= last.arg.chromEnd
                    /\ p.end - Len(p.right) >= last.arg.chromStart)

\* C3 amended: a stored pair is selected exactly when it lies on the query's
\* chromosome, start + len(left) <= queryStart and end - len(right) >= queryEnd;
\* a pair exactly on a boundary is selected, a pair one past it is not.
C3_QueryBoundary ==
    last.op = "query" =>
        \A p \in pairs :
            Selected(p) <=>
                /\ p.chrom = last.arg.chrom
                /\ p.start + Len(p.left) <= last.arg.chromStart
                /\ p.end - Len(p.right) >= last.arg.chromEnd

\* a query selected a pair that sits exactly on both boundaries and left out
\* a pair on the same chromosome that is one position past one of them
C3_Witness ==
    /\ last.op = "query"
    /\ \E p \in pairs :
        /\ Selected(p)
        /\ p.start + Len(p.left) = last.arg.chromStart
        /\ p.end - Len(p.right) = last.arg.chromEnd
    /\ \E q \in pairs :
        /\ ~Selected(q)
        /\ q.chrom = last.arg.chrom
        /\ \/ q.start + Len(q.left) = last.arg.chromStart + 1
           \/ q.end - Len(q.right) = last.arg.chromEnd - 1

----------------------------------------------------------------------------
(* A PrimerPair and the list operations on it.  A pair is constructed from  *)
(* two elements, each a Primer or None, as Primer3.design and query do.     *)

MaxIndex == 3          \* list indices are 0..MaxIndex

PairElems == {NoneValue, RightPrimer}
ElemLists == UNION {[1..n -> PairElems] : n \in 0..MaxElems}

PairInit ==
    /\ primer = {}
    /\ target = <<>>
    /\ pairs = {}
    /\ status = {}
    /\ now = 0
    /\ connOpen = FALSE
    /\ rows = <<>>
    /\ last = [op |-> "__init__", arg |-> NoneValue, outcome |-> "",
               value |-> NoneValue]
    /\ pair \in {PrimerPair(<<l, r>>, NoneValue).elements : l, r \in PairElems}
    /\ pairLast = [op |-> "__init__", outcome |-> "", value |-> NoneValue]
    /\ primersByName = <<>>
    /\ pc = Idle
    /\ uncommitted = NoneValue

PairAppend(x) ==
    /\ LET r == pairAppend(pair, x)
       IN  /\ pair' = r.self
           /\ pairLast' = [op |-> "append", outcome |-> r.raised, value |-> r.value]
    /\ UNCHANGED <<storeVars, resolverVars, connVars>>

PairExtend(L) ==
    /\ LET r == pairExtend(pair, L)
       IN  /\ pair' = r.self
           /\ pairLast' = [op |-> "extend", outcome |-> r.raised, value |-> r.value]
    /\ UNCHANGED <<storeVars, resolverVars, connVars>>

PairInsert(i, x) ==
    /\ LET r == pairInsert(pair, i, x)
       IN  /\ pair' = r.self
           /\ pairLast' = [op |-> "insert", outcome |-> r.raised, value |-> r.value]
    /\ UNCHANGED <<storeVars, resolverVars, connVars>>

PairAdd(L) ==
    /\ LET r == pairAdd(pair, L)
       IN  /\ pair' = r.self
           /\ pairLast' = [op |-> "__add__", outcome |-> r.raised, value |-> r.value]
    /\ UNCHANGED <<storeVars, resolverVars, connVars>>

PairIadd(L) ==
    /\ LET r == pairIadd(pair, L)
       IN  /\ pair' = r.self
           /\ pairLast' = [op |-> "__iadd__", outcome |-> r.raised, value |-> r.value]
    /\ UNCHANGED <<storeVars, resolverVars, connVars>>

PairSetslice(i, j, L) ==
    /\ LET r == pairSetslice(pair, i, j, L)
       IN  /\ pair' = r.self
           /\ pairLast' = [op |-> "__setslice__", outcome |-> r.raised, value |-> r.value]
    /\ UNCHANGED <<storeVars, resolverVars, connVars>>

PairNext ==
    \/ \E x \in PairElems : PairAppend(x)
    \/ \E L \in ElemLists : PairExtend(L)
    \/ \E i \in 0..MaxIndex, x \in PairElems : PairInsert(i, x)
    \/ \E L \in ElemLists : PairAdd(L)
    \/ \E L \in ElemLists : PairIadd(L)
    \/ \E i, j \in 0..MaxIndex, L \in ElemLists : PairSetslice(i, j, L)

PairSpec == PairInit /\ [][PairNext]_vars

\* C10: a PrimerPair holds exactly two elements after construction and after
\* any append, extend, insert, +, += or slice assignment.  The formula is the
\* upper half of that statement (never more than two elements), which the
\* exact statement implies.
C10_PairSizeBound == Len(pair) <= PairLength

----------------------------------------------------------------------------
(* primer.py: the scores of a PrimerPair; `self` is the list's elements,   *)
(* a snp is the tuple (refName, offset, length, id) of Locus.snpCheck      *)

\* the size range sortvalues hands to amplicons, and amplicons' default
SizeRange == <<0, 10000>>

\* PrimerPair.amplicons: one amplicon per pair of a left and a right locus on
\* one chromosome whose length is in the size range, named here by the
\* positions of the two loci in their lists
amplicons(self, sizeRange) ==
    {mn \in (1..Len(self[1].loci)) \X (1..Len(self[2].loci)) :
        LET m == self[1].loci[mn[1]]
            n == self[2].loci[mn[2]]
            amplen == n.offset + n.length - m.offset
        IN  /\ m.chrom = n.chrom
            /\ \/ sizeRange = <<>>
               \/ amplen >= sizeRange[1] /\ amplen <= sizeRange[2]}

snpcount(self) == Len(self[1].snp) + Len(self[2].snp)

mispriming(self) ==
    Max(Max(Len(self[1].loci), Len(self[2].loci)) - 1, 0)

\* snps in the last third of the left primer, or in the first third of the
\* right one; / is the integer division of Python 2
criticalsnp(self) ==
    Cardinality({i \in 1..Len(self[1].snp) :
                    self[1].snp[i][2] >= (2 * Len(self[1].seq)) \div 3})
    + Cardinality({i \in 1..Len(self[2].snp) :
                    self[2].snp[i][2] + self[2].snp[i][3]
                        <= Len(self[2].seq) \div 3})

\* designrank asserts that the two ranks agree
designrank(self) ==
    IF self[1].rank # self[2].rank
    THEN [raised |-> "AssertionError", value |-> NoneValue]
    ELSE [raised |-> "", value |-> self[1].rank]

sortvalues(self) ==
    IF Len(self) # 2 \/ designrank(self).raised # ""
    THEN [raised |-> "AssertionError", value |-> NoneValue]
    ELSE [raised |-> "",
          value |-> <<Cardinality(amplicons(self, SizeRange)) - 1,
                      criticalsnp(self), mispriming(self), snpcount(self),
                      designrank(self).value>>]

RECURSIVE TupleLess(_, _)
\* a < b for two tuples of integers: the first differing position decides
TupleLess(a, b) ==
    IF b = <<>> THEN FALSE
    ELSE IF a = <<>> THEN TRUE
    ELSE IF Head(a) # Head(b) THEN Head(a) < Head(b)
    ELSE TupleLess(Tail(a), Tail(b))

\* PrimerPair.__lt__
lt(self, other) ==
    IF sortvalues(self).raised # "" \/ sortvalues(other).raised # ""
    THEN [raised |-> "AssertionError", value |-> NoneValue]
    ELSE [raised |-> "",
          value |-> TupleLess(sortvalues(self).value, sortvalues(other).value)]

\* the methods check(limits) is asked for by name
ScoreMethods ==
    {"amplicons", "criticalsnp", "mispriming", "snpcount", "designrank"}

\* getattr(self, k)() and then int(x), or len(x) where x is a list
scoreOf(self, k) ==
    IF k = "amplicons"
    THEN [raised |-> "", value |-> Cardinality(amplicons(self, SizeRange))]
    ELSE IF k = "criticalsnp" THEN [raised |-> "", value |-> criticalsnp(self)]
    ELSE IF k = "mispriming" THEN [raised |-> "", value |-> mispriming(self)]
    ELSE IF k = "snpcount" THEN [raised |-> "", value |-> snpcount(self)]
    ELSE IF k = "designrank" THEN designrank(self)
    ELSE [raised |-> "AttributeError", value |-> NoneValue]

\* the score is over its limit
exceedsOrReaches(x, v) == x >= v
exceeds(x, v) == x > v

RECURSIVE check(_, _)
\* PrimerPair.check over limits.items(), a list of (name, threshold)
check(self, items) ==
    IF items = <<>> THEN [raised |-> "", value |-> TRUE]
    ELSE LET x == scoreOf(self, Head(items)[1])
         IN  IF x.raised # "" THEN x
             ELSE IF exceeds(x.value, Head(items)[2])
             THEN [raised |-> "", value |-> FALSE]
             ELSE check(self, Tail(items))

----------------------------------------------------------------------------
(* Scoring: pairs of resolved and snp-checked primers, and what sortvalues, *)
(* < and check return for them                                              *)

MaxThreshold == 1      \* the thresholds of check(limits) lie in 0..MaxThreshold
MaxLimits == 2         \* methods named in one limits mapping

ScoreSeq == <<"A", "C", "G">>

\* loci of the left primer: none, the target, a site downstream, the target
\* and another site
LeftLoci ==
    {<<>>,
     <<Locus("chr1", 1, 3, FALSE)>>,
     <<Locus("chr1", 9, 3, FALSE)>>,
     <<Locus("chr1", 1, 3, FALSE), Locus("chr1", 2, 3, FALSE)>>,
     <<Locus("chr1", 1, 3, FALSE), Locus("chr2", 1, 3, FALSE)>>}

\* loci of the right primer: none, the target, the target and a far site
RightLoci ==
    {<<>>,
     <<Locus("chr1", 5, 3, TRUE)>>,
     <<Locus("chr1", 5, 3, TRUE), Locus("chr1", 10001, 3, TRUE)>>}

\* the snps under a primer: none, or one base at offset 0, 1 or 2
SnpLists ==
    {<<>>} \cup {<<<<"chr1", o, 1, "rs1">>>> : o \in 0..2}

\* the rank a Primer is built with, and a rank pruneRanks has set
Ranks == {-1, 0}

ScorePrimer(name, loci, snp, rank) ==
    [Primer(name, ScoreSeq, NoneValue) EXCEPT
        !.loci = loci, !.snp = snp, !.rank = rank]

OnTargetLeft(snp, rank) ==
    ScorePrimer("x_left", <<Locus("chr1", 1, 3, FALSE)>>, snp, rank)

OnTargetRight(snp, rank) ==
    ScorePrimer("x_right", <<Locus("chr1", 5, 3, TRUE)>>, snp, rank)

ScorePairs ==
    {<<ScorePrimer("x_left", ll, ls, -1), ScorePrimer("x_right", rl, <<>>, -1)>> :
        ll \in LeftLoci, rl \in RightLoci,
        ls \in {<<>>, <<<<"chr1", 2, 1, "rs1">>>>}}
    \cup {<<OnTargetLeft(ls, -1), OnTargetRight(rs, -1)>> :
            ls \in SnpLists, rs \in SnpLists}
    \cup {<<OnTargetLeft(ls, lr), OnTargetRight(<<>>, rr)>> :
            ls \in {<<>>, <<<<"chr1", 2, 1, "rs1">>>>},
            lr \in Ranks, rr \in Ranks}

\* limits.items(): the named methods, each once, in the order the dict
\* yields them
ItemLists ==
    {items \in UNION {[1..n -> ScoreMethods \X (0..MaxThreshold)] :
                        n \in 0..MaxLimits} :
        \A i, j \in DOMAIN items : items[i][1] = items[j][1] => i = j}

\* what a call is handed: another pair to compare with, or limits to check
ScoreArgs ==
    {[kind |-> "PrimerPair", val |-> other] : other \in ScorePairs}
    \cup {[kind |-> "limits", val |-> items] : items \in ItemLists}

ScoreInit ==
    /\ primer = {}
    /\ target = <<>>
    /\ pairs = {}
    /\ status = {}
    /\ now = 0
    /\ connOpen = FALSE
    /\ rows = <<>>
    /\ last = [op |-> "", arg |-> NoneValue, outcome |-> "", value |-> NoneValue]
    /\ pair \in ScorePairs
    /\ \E arg \in ScoreArgs :
         pairLast = [op |-> "__init__", arg |-> arg, outcome |-> "",
                     value |-> NoneValue]
    /\ primersByName = <<>>
    /\ pc = Idle
    /\ uncommitted = NoneValue

Sortvalues ==
    /\ pairLast' = [pairLast EXCEPT !.op = "sortvalues",
                        !.outcome = sortvalues(pair).raised,
                        !.value = sortvalues(pair).value]
    /\ UNCHANGED <<pair, storeVars, resolverVars, connVars>>

\* pair < other
Lt ==
    /\ pairLast.arg.kind = "PrimerPair"
    /\ pairLast' = [pairLast EXCEPT !.op = "__lt__",
                        !.outcome = lt(pair, pairLast.arg.val).raised,
                        !.value = lt(pair, pairLast.arg.val).value]
    /\ UNCHANGED <<pair, storeVars, resolverVars, connVars>>

\* pair.check(limits)
Check ==
    /\ pairLast.arg.kind = "limits"
    /\ pairLast' = [pairLast EXCEPT !.op = "check",
                        !.outcome = check(pair, pairLast.arg.val).raised,
                        !.value = check(pair, pairLast.arg.val).value]
    /\ UNCHANGED <<pair, storeVars, resolverVars, connVars>>

ScoreNext ==
    \/ Sortvalues
    \/ Lt
    \/ Check

ScoreSpec == ScoreInit /\ [][ScoreNext]_vars

\* the number of amplicons of a pair in the size range of sortvalues
ValidAmplicons(self) == Cardinality(amplicons(self, SizeRange))

\* the sort key as it is described: the excess of amplicons is never negative
SortKey(self) ==
    <<Max(0, ValidAmplicons(self) - 1), criticalsnp(self), mispriming(self),
      snpcount(self), self[1].rank>>

RanksAgree(self) == self[1].rank = self[2].rank

\* C11: for a pair whose ranks agree sortvalues() returns (max(0, valid
\* amplicons - 1), criticalsnp, mispriming, snpcount, designrank), its first
\* component is never negative, and a < b is the lexicographic order of the
\* two pairs' tuples.
C11_SortKey ==
    /\ (pairLast.op = "sortvalues" /\ RanksAgree(pair)) =>
            /\ pairLast.outcome = ""
            /\ pairLast.value = SortKey(pair)
            /\ pairLast.value[1] >= 0
    /\ (/\ pairLast.op = "__lt__"
        /\ RanksAgree(pair)
        /\ RanksAgree(pairLast.arg.val)) =>
            /\ pairLast.outcome = ""
            /\ pairLast.value
                = TupleLess(SortKey(pair), SortKey(pairLast.arg.val))

\* every method the limits name returns a score for the pair
AllEvaluate(self, items) ==
    \A i \in DOMAIN items : scoreOf(self, items[i][1]).raised = ""

\* a method the limits name returns a score over its threshold
SomeExceeds(self, items) ==
    \E i \in DOMAIN items :
        /\ scoreOf(self, items[i][1]).raised = ""
        /\ scoreOf(self, items[i][1]).value > items[i][2]

\* C13 as stated: check(limits) returns False exactly when a method named in
\* limits evaluates to a value strictly greater than its threshold.
C13_GateAsStated ==
    pairLast.op = "check" =>
        ((pairLast.outcome = "" /\ pairLast.value = FALSE)
            <=> SomeExceeds(pair, pairLast.arg.val))

\* C13: when every method named in limits returns (designrank does when the
\* two ranks agree), check(limits) returns False exactly when a named method
\* evaluates to a value strictly greater than its threshold, and True
\* otherwise: a value equal to its threshold and an empty limits are accepted.
\* When designrank is named and the ranks differ, check raises AssertionError
\* or returns False for a limit that is exceeded.  check leaves the pair as
\* it is.
C13_AcceptanceGate ==
    [][Check =>
        /\ pair' = pair
        /\ AllEvaluate(pair, pairLast.arg.val) =>
             /\ pairLast'.outcome = ""
             /\ pairLast'.value = ~SomeExceeds(pair, pairLast.arg.val)
        /\ ~AllEvaluate(pair, pairLast.arg.val) =>
             \/ pairLast'.outcome = "AssertionError"
             \/ /\ pairLast'.outcome = ""
                /\ pairLast'.value = FALSE
                /\ SomeExceeds(pair, pairLast.arg.val)]_vars

\* check accepted a pair on two limits, one of them met exactly by a score
\* that is not zero
C13_Witness ==
    /\ pairLast.op = "check"
    /\ pairLast.outcome = ""
    /\ pairLast.value = TRUE
    /\ Len(pairLast.arg.val) = MaxLimits
    /\ \E i \in DOMAIN pairLast.arg.val :
         /\ pairLast.arg.val[i][2] > 0
         /\ scoreOf(pair, pairLast.arg.val[i][1]).value = pairLast.arg.val[i][2]

----------------------------------------------------------------------------
(* primer.py: MultiFasta.createPrimers reading the aligner's SAM records.  *)
(* A record is pysam's: is_unmapped, qname, cigar as a list of (operation, *)
(* length) where operation 0 is M (an aligned base, equal or not), 1 is I  *)
(* and 2 is D, seq, the reference name, pos, is_reverse.  `mismatches` is  *)
(* the number of aligned bases of the record that differ from the          *)
(* reference, which the SAM record carries outside its cigar.              *)

MaxAlignments == 4     \* records of one SAM file

\* zip(*aln.cigar)[0]: the operations of the cigar
cigarOps(aln) == [i \in DOMAIN aln.cigar |-> aln.cigar[i][1]]

\* any(ops): some operation is not 0
anyOp(ops) == \E i \in DOMAIN ops : ops[i] # 0

\* the body of the loop over the mappings for one record
readAlignment(dict, aln) ==
    IF aln.is_unmapped THEN [raised |-> "", primers |-> dict]
    ELSE IF aln.qname \notin DOMAIN dict
    THEN [raised |-> "KeyError", primers |-> dict]
    ELSE IF ~anyOp(cigarOps(aln))
    THEN [raised |-> "",
          primers |-> [dict EXCEPT ![aln.qname] =
                          addTarget(@, aln.rname, aln.pos, aln.is_reverse)]]
    ELSE IF Count(cigarOps(aln), 0) >= Len(aln.seq) - 1
    THEN [raised |-> "",
          primers |-> [dict EXCEPT ![aln.qname].sigmatch = @ + 1]]
    ELSE [raised |-> "", primers |-> dict]

SeqACGT == <<"A", "C", "G", "T">>

\* the primers of the FASTA file, by name
FastaPrimers ==
    [n \in {"x_left", "x_right"} |->
        IF n = "x_left" THEN Primer(n, SeqACGT, NoneValue)
        ELSE Primer(n, ScoreSeq, NoneValue)]

\* the cigars an end-to-end alignment of a read of n bases can have with at
\* most one single-base gap: all aligned, one inserted base, one deleted base
Cigars(n) ==
    {<<<<0, n>>>>,
     <<<<0, n - 2>>, <<1, 1>>, <<0, 1>>>>,
     <<<<0, n - 2>>, <<2, 1>>, <<0, 2>>>>}

Unmapped(qname, seq) ==
    [is_unmapped |-> TRUE, qname |-> qname, cigar |-> NoneValue, seq |-> seq,
     rname |-> NoneValue, pos |-> -1, is_reverse |-> FALSE, mismatches |-> 0]

Alignments ==
    {[is_unmapped |-> FALSE, qname |-> n, cigar |-> c,
      seq |-> FastaPrimers[n].seq, rname |-> "chr1", pos |-> pos,
      is_reverse |-> (n = "x_right"), mismatches |-> mm] :
        n \in {"x_left"}, c \in Cigars(Len(SeqACGT)), pos \in {1, 7},
        mm \in 0..1}
    \cup {[is_unmapped |-> FALSE, qname |-> "x_right", cigar |-> c,
           seq |-> ScoreSeq, rname |-> "chr1", pos |-> 5,
           is_reverse |-> TRUE, mismatches |-> mm] :
            c \in Cigars(Len(ScoreSeq)), mm \in 0..1}
    \cup {Unmapped("x_left", SeqACGT)}
    \cup {[is_unmapped |-> FALSE, qname |-> "other",
           cigar |-> <<<<0, 4>>>>, seq |-> SeqACGT, rname |-> "chr1",
           pos |-> 1, is_reverse |-> FALSE, mismatches |-> 0]}

ResolveInit ==
    /\ primer = {}
    /\ target = <<>>
    /\ pairs = {}
    /\ status = {}
    /\ now = 0
    /\ connOpen = FALSE
    /\ rows = <<>>
    /\ last = [op |-> "createPrimers", arg |-> NoneValue, outcome |-> "",
               value |-> 0]
    /\ pair = <<>>
    /\ pairLast = [op |-> "", outcome |-> "", value |-> NoneValue]
    /\ primersByName = FastaPrimers
    /\ pc = Idle
    /\ uncommitted = NoneValue

\* createPrimers reads the next record of the SAM file; `last.value` counts
\* the records read, and an exception ends the reading
ReadAlignment(aln) ==
    /\ last.outcome = ""
    /\ last.value < MaxAlignments
    /\ LET r == readAlignment(primersByName, aln)
       IN  /\ primersByName' = r.primers
           /\ last' = [last EXCEPT !.outcome = r.raised, !.value = @ + 1]
    /\ UNCHANGED <<primer, target, pairs, status, now, connOpen, rows,
                   pairVars, connVars>>

ResolveNext == \E aln \in Alignments : ReadAlignment(aln)

ResolveSpec == ResolveInit /\ [][ResolveNext]_vars

\* the aligned bases of a record that equal the reference
MatchingBases(aln) ==
    LET RECURSIVE Aligned(_)
        Aligned(c) == IF c = <<>> THEN 0
                      ELSE (IF Head(c)[1] = 0 THEN Head(c)[2] ELSE 0)
                           + Aligned(Tail(c))
    IN  Aligned(aln.cigar) - aln.mismatches

\* every base of the read is aligned and equals the reference
FullLengthExact(aln) ==
    /\ aln.cigar = <<<<0, Len(aln.seq)>>>>
    /\ aln.mismatches = 0

\* C12: a mapped record of a known primer that is a full-length exact match
\* appends one Locus (chrom, pos, len(primer), strand) to that primer's loci
\* and leaves sigmatch; any other mapped record with at least len(primer) - 1
\* matching bases adds one to that primer's sigmatch and leaves its loci; an
\* unmapped record changes nothing; no other primer changes.
C12_SpecificityResolution ==
    [][\A aln \in Alignments :
        (ReadAlignment(aln) /\ aln.qname \in DOMAIN primersByName) =>
            LET p == primersByName[aln.qname]
                q == primersByName'[aln.qname]
            IN  /\ \A n \in DOMAIN primersByName \ {aln.qname} :
                        primersByName'[n] = primersByName[n]
                /\ aln.is_unmapped => q = p
                /\ (~aln.is_unmapped /\ FullLengthExact(aln)) =>
                        /\ q.loci = Append(p.loci,
                                Locus(aln.rname, aln.pos, Len(p.seq),
                                      aln.is_reverse))
                        /\ q.sigmatch = p.sigmatch
                /\ (/\ ~aln.is_unmapped
                    /\ ~FullLengthExact(aln)
                    /\ MatchingBases(aln) >= Len(p.seq) - 1) =>
                        /\ q.loci = p.loci
                        /\ q.sigmatch = p.sigmatch + 1]_vars

----------------------------------------------------------------------------
(* The store again: adding a primer that is stored already *)

\* the target row addPrimer writes for a locus of p
TargetRow(p, l) ==
    [seq |-> p.seq, chrom |-> l.chrom, position |-> l.offset,
     reverse |-> l.reverse]

\* the rows an addPrimer(p) writes are in the tables
AlreadyAdded(p) ==
    /\ PrimerRow(p) \in primer
    /\ \A i \in DOMAIN p.loci :
         \E j \in DOMAIN target : target[j] = TargetRow(p, p.loci[i])

\* C14: addPrimer of a primer whose primer row and target rows are stored
\* already (a second call with the same name, sequence and loci) leaves the
\* primer table and the target table with the rows they had, and each locus
\* of the primer is one target row, not more.
C14_IdempotentUpsert ==
    [][\A p \in LeftPrimers \cup {RightPrimer} :
        (AddPrimer(<<p>>) /\ AlreadyAdded(p)) =>
            /\ last'.outcome = ""
            /\ primer' = primer
            /\ target' = target
            /\ \A i \in DOMAIN p.loci :
                 Cardinality({j \in DOMAIN target' :
                                target'[j] = TargetRow(p, p.loci[i])}) = 1]_vars

----------------------------------------------------------------------------
(* database.py: the store operations statement by statement: connect, the  *)
(* statements of the body in the connection's transaction, commit, the     *)
(* finally clause, and what runs after it.  `pc.fn` is the method whose    *)
(* code is running (addPair runs addPrimer first), `pc.before` the tables  *)
(* as they were when the connection was asked for.                         *)

Tables == [primer |-> primer, target |-> target, pairs |-> pairs,
           status |-> status]

\* the calls made on the store
ResolvedLeft == CHOOSE l \in LocatedLefts : l.loci # <<>>

Calls ==
    {[op |-> "__init__", arg |-> NoneValue]}
    \cup {[op |-> "addPrimer", arg |-> b] :
            b \in {<<>>, <<ResolvedLeft>>, <<ResolvedLeft, NoneValue>>}}
    \cup {[op |-> "addPair", arg |-> b] :
            b \in {<<PrimerPair(<<ResolvedLeft, RightPrimer>>, CallableName("x"))>>,
                   <<PrimerPair(<<ResolvedLeft, RightPrimer>>, CallableName("x")),
                     PrimerPair(<<ResolvedLeft, RightPrimer>>, PyStr("x"))>>,
                   <<PrimerPair(<<ResolvedLeft, NoneValue>>, NoneValue)>>}}
    \cup {[op |-> "query", arg |-> v] : v \in {w \in Variants : w.chromStart = 3}}
    \cup {[op |-> "blacklist", arg |-> a] : a \in {NoneValue, PyStr("x")}}

\* the primers the running addPrimer was handed
primersOf(p) == IF p.op = "addPair" THEN flatten(p.arg) ELSE p.arg

\* the methods that call commit after their statements
Committing == {"__init__", "addPrimer", "addPair", "blacklist"}

\* the statements between connect and commit, run on the tables u of the
\* open transaction: the tables they leave, the exception raised, the value
executeBody(p, u, time) ==
    IF p.fn = "__init__"
    THEN {[raised |-> "", tables |-> u, value |-> NoneValue]}
    ELSE IF p.fn = "addPrimer"
    THEN LET r == addPrimerLoop(primersOf(p), u.primer, u.target)
         IN  {[raised |-> r.raised,
               tables |-> [u EXCEPT !.primer = r.primer, !.target = r.target],
               value |-> NoneValue]}
    ELSE IF p.fn = "addPair"
    THEN LET r == addPairLoop(p.arg, u.pairs, u.status, time)
         IN  {[raised |-> r.raised,
               tables |-> [u EXCEPT !.pairs = r.pairs, !.status = r.status],
               value |-> NoneValue]}
    ELSE IF p.fn = "query"
    THEN {[raised |-> "", tables |-> u, value |-> fetched] :
            fetched \in OrderByMidpointdistance(
                            QuerySelect(u.pairs, u.status, p.arg))}
    ELSE IF p.arg # NoneValue
    THEN {[raised |-> blacklistUpdate(p.arg.val, u.status).raised,
           tables |-> [u EXCEPT
                        !.status = blacklistUpdate(p.arg.val, u.status).status],
           value |-> NoneValue]}
    ELSE {[raised |-> "", tables |-> u, value |-> listed] :
            listed \in FetchOrders(BlacklistSelect(u.pairs, u.status))}

\* the statements of blacklist() and of query return or fall through to the
\* finally clause without a commit
commitsAfter(p) == p.fn \in Committing /\ ~(p.fn = "blacklist" /\ p.arg = NoneValue)

\* finally: self.db.close(): whether the connection is open afterwards
leaveOpenOnError(raised) == raised # ""
finallyClose(raised) == FALSE

ConnInit ==
    /\ primer = {}
    /\ target = <<>>
    /\ pairs = {}
    /\ status = {}
    /\ now = 0
    /\ connOpen = FALSE
    /\ rows = <<>>
    /\ last = [op |-> "", arg |-> NoneValue, outcome |-> "", value |-> NoneValue]
    /\ pair = <<>>
    /\ pairLast = [op |-> "", outcome |-> "", value |-> NoneValue]
    /\ primersByName = <<>>
    /\ pc = [op |-> "__init__", fn |-> "__init__", at |-> "connect",
             arg |-> NoneValue, raised |-> "", value |-> NoneValue,
             before |-> [primer |-> {}, target |-> <<>>, pairs |-> {},
                         status |-> {}]]
    /\ uncommitted = NoneValue

\* a method of the store is called
Call(c) ==
    /\ pc = Idle
    \* a constructor that raised has made no store to call
    /\ (last.op = "__init__" /\ last.outcome # "") => c.op = "__init__"
    /\ c.op = "addPrimer" => Len(target) + LociCount(c.arg) <= MaxTargetRows
    /\ c.op = "addPair" =>
            /\ now < MaxTime
            /\ Len(target) + LociCount(flatten(c.arg)) <= MaxTargetRows
    /\ pc' = [op |-> c.op,
              fn |-> IF c.op = "addPair" THEN "addPrimer" ELSE c.op,
              at |-> "connect", arg |-> c.arg, raised |-> "",
              value |-> NoneValue, before |-> Tables]
    /\ UNCHANGED <<storeVars, pairVars, resolverVars, uncommitted>>

\* self.db = sqlite3.connect(self.sqlite)
Connect ==
    /\ pc # Idle
    /\ pc.at = "connect"
    /\ connOpen' = TRUE
    /\ uncommitted' = Tables
    /\ pc' = [pc EXCEPT !.at = "execute", !.before = Tables]
    /\ UNCHANGED <<primer, target, pairs, status, now, rows, last, pairVars,
                   resolverVars>>

\* sqlite3.connect raises: __init__ connects outside its try, the other
\* methods re-raise and run their finally clause
ConnectRaises ==
    /\ pc # Idle
    /\ pc.at = "connect"
    /\ IF pc.fn = "__init__"
       THEN /\ pc' = Idle
            /\ last' = [op |-> pc.op, arg |-> NoneValue,
                        outcome |-> "OperationalError", value |-> NoneValue]
       ELSE /\ pc' = [pc EXCEPT !.at = "finally", !.raised = "OperationalError",
                                !.before = Tables]
            /\ last' = last
    /\ UNCHANGED <<primer, target, pairs, status, now, connOpen, rows, pairVars,
                   resolverVars, uncommitted>>

\* the statements of the body
Execute ==
    /\ pc # Idle
    /\ pc.at = "execute"
    /\ \E r \in executeBody(pc, uncommitted, now) :
         /\ uncommitted' = r.tables
         /\ rows' = IF pc.fn = "query" THEN r.value ELSE rows
         /\ now' = IF pc.fn = "addPair" /\ r.raised = "" THEN now + 1 ELSE now
         /\ pc' = [pc EXCEPT !.raised = r.raised, !.value = r.value,
                             !.at = IF r.raised = "" /\ commitsAfter(pc)
                                    THEN "commit" ELSE "finally"]
    /\ UNCHANGED <<primer, target, pairs, status, connOpen, last, pairVars,
                   resolverVars>>

\* a statement of the body raises an error of sqlite3
ExecuteRaises ==
    /\ pc # Idle
    /\ pc.at = "execute"
    /\ pc' = [pc EXCEPT !.raised = "OperationalError", !.at = "finally"]
    /\ UNCHANGED <<storeVars, pairVars, resolverVars, uncommitted>>

\* self.db.commit()
Commit ==
    /\ pc # Idle
    /\ pc.at = "commit"
    /\ primer' = uncommitted.primer
    /\ target' = uncommitted.target
    /\ pairs' = uncommitted.pairs
    /\ status' = uncommitted.status
    /\ pc' = [pc EXCEPT !.at = "finally"]
    /\ UNCHANGED <<now, connOpen, rows, last, pairVars, resolverVars,
                   uncommitted>>

\* finally: self.db.close(), and then the method raises, returns, or goes on
Finally ==
    /\ pc # Idle
    /\ pc.at = "finally"
    /\ connOpen' = finallyClose(pc.raised)
    /\ uncommitted' = NoneValue
    /\ IF pc.raised # ""
       THEN /\ pc' = Idle
            /\ last' = [op |-> pc.op, arg |-> NoneValue, outcome |-> pc.raised,
                        value |-> NoneValue]
       ELSE IF pc.op = "addPair" /\ pc.fn = "addPrimer"
       THEN /\ pc' = [pc EXCEPT !.fn = "addPair", !.at = "connect"]
            /\ last' = last
       ELSE IF pc.fn = "query"
       THEN /\ pc' = [pc EXCEPT !.at = "after"]
            /\ last' = last
       ELSE /\ pc' = Idle
            /\ last' = [op |-> pc.op, arg |-> NoneValue, outcome |-> "",
                        value |-> pc.value]
    /\ UNCHANGED <<primer, target, pairs, status, now, rows, pairVars,
                   resolverVars>>

\* query's loop over the fetched rows, after the connection is closed
Rebuild ==
    /\ pc # Idle
    /\ pc.at = "after"
    /\ pc' = Idle
    /\ last' = [op |-> pc.op, arg |-> NoneValue,
                outcome |-> queryPairs(rows).raised,
                value |-> queryPairs(rows).value]
    /\ UNCHANGED <<primer, target, pairs, status, now, connOpen, rows, pairVars,
                   resolverVars, uncommitted>>

ConnNext ==
    \/ \E c \in Calls : Call(c)
    \/ Connect
    \/ ConnectRaises
    \/ Execute
    \/ ExecuteRaises
    \/ Commit
    \/ Finally
    \/ Rebuild

ConnSpec == ConnInit /\ [][ConnNext]_vars

====
